---- MODULE Spec2Model ----
(***************************************************************************)
(* Model of the notebook "Pandas and Numpy/How fast are NumPy ops.ipynb".  *)
(*                                                                         *)
(* The state is the kernel namespace of the notebook (N, speed, l1, a1,    *)
(* l2, item, t1, t2, a2, l3, op1), the system wall clock read by           *)
(* time.time(), the last line written to stdout and the bar chart drawn by *)
(* the last cell.  There is one action per code cell; trace lists, in      *)
(* program order, the steps the executed cells have taken.                 *)
(*                                                                         *)
(* Floating-point numbers are fixed-point integers counted in thousandths  *)
(* (Unit = 1.0).  Timestamps and durations are integers counted in clock   *)
(* ticks.                                                                  *)
(***************************************************************************)
EXTENDS Integers, Sequences, FiniteSets, TLC

VARIABLES pc, err, ns, N, speed, l1, a1, l2, item, t1, t2, a2, l3,
          clock, stdout, chart, runs, execs, trace

vars == <<pc, err, ns, N, speed, l1, a1, l2, item, t1, t2, a2, l3,
          clock, stdout, chart, runs, execs, trace>>

(***************************************************************************)
(* Bounds of the model.                                                    *)
(***************************************************************************)
\* The notebook's literal 1000000 (N and the end of the comprehension's
\* range) scaled down.
MaxN == 2
\* Largest step of the wall clock between two reads of time.time().
MaxTick == 1
\* Number of cells executed by hand in one interactive session.
MaxExec == 2
\* Largest length of the Sample Set an interactive session starts from.
MaxSample == 1

(***************************************************************************)
(* Numbers.                                                                *)
(***************************************************************************)
Unit == 10 * 10 * 10
\* IEEE special values a NumPy ufunc can return.
NaN == 2 ^ 30
NegInf == 0 - (2 ^ 30)

Min(a, b) == IF a < b THEN a ELSE b

\* s[:n] of a Python list.
Slice(s, n) == SubSeq(s, 1, Min(n, Len(s)))

RECURSIVE Pow10(_)
Pow10(n) == IF n = 0 THEN 1 ELSE 10 * Pow10(n - 1)

\* Decimal exponent of x >= 1.0: the largest n with 10^n <= x.
RECURSIVE ExpUp(_)
ExpUp(x) == IF x < 10 * Unit THEN 0 ELSE 1 + ExpUp(x \div 10)

\* Decimal exponent of 0 < x < 1.0, negated: the least m with x*10^m >= 1.
RECURSIVE ExpDown(_)
ExpDown(x) == IF x >= Unit THEN 0 ELSE 1 + ExpDown(x * 10)

\* Fractional binary digits of log10(y/4096) for 1 <= y/4096 < 10, by
\* repeated squaring: k digits, most significant first.
RECURSIVE FracBits(_, _)
FracBits(y, k) ==
    IF k = 0 THEN 0
    ELSE LET s == (y * y) \div 4096
         IN  IF s >= 10 * 4096
             THEN 2 ^ (k - 1) + FracBits(s \div 10, k - 1)
             ELSE FracBits(s, k - 1)

\* log10 of a strictly positive x: 12 binary digits of the fraction,
\* rounded to the nearest thousandth (within one thousandth of log10).
Log10Pos(x) ==
    LET n == IF x >= Unit THEN ExpUp(x) ELSE 0 - ExpDown(x)
        y == IF x >= Unit
             THEN (x * 4096) \div (Unit * Pow10(n))
             ELSE (x * Pow10(0 - n) * 4096) \div Unit
    IN  ((n * 4096 + FracBits(y, 12)) * Unit + 2048) \div 4096

\* math.log10 raises ValueError("math domain error") on x <= 0.
lg10Raises(x) == x <= 0
lg10(x) == Log10Pos(x)

\* def op1(x): return (lg10(x))
op1Raises(x) == lg10Raises(x)
op1(x) == lg10(x)

\* numpy.log10 on one float64: -inf at 0 and nan below 0, with a
\* RuntimeWarning and no exception.
np_log10(x) == IF x > 0 THEN Log10Pos(x)
               ELSE IF x = 0 THEN NegInf ELSE NaN

\* np.array(list of floats): a one-dimensional float64 array.
np_array(l) == [dtype |-> "float64", shape |-> <<Len(l)>>, data |-> l]

\* np.log10(array): the ufunc applied elementwise, a new array.
np_log10_array(a) ==
    [dtype |-> "float64", shape |-> a.shape,
     data |-> [i \in 1..Len(a.data) |-> np_log10(a.data[i])]]

\* list(array)
list_of_array(a) == a.data

(***************************************************************************)
(* Data Generator.                                                         *)
(***************************************************************************)
\* Values np.random.random can draw from [0.0, 1.0), in thousandths.
RandomDraws == {0, 30, 999}

\* The scaling without its "+1".
ScaleNoShift(r) == 100 * r

\* 100*r + 1 for one draw r.
Scale(r) == 100 * r + Unit

\* A generator that accepts any size.
RandomRaisesNever(n) == FALSE

\* np.random.random(n) raises ValueError on a negative size.
RandomRaises(n) == n < 0
\* The arrays np.random.random(n) can return.
RandomArrays(n) == [1..n -> RandomDraws]

\* list(100*(np.random.random(N))+1) for one drawn array.
Generate(r) == [i \in 1..Len(r) |-> Scale(r[i])]

\* Values of the literal N the notebook is run with.
NValues == (0 - 1)..MaxN

(***************************************************************************)
(* Timing.                                                                 *)
(***************************************************************************)
\* time.time() reads the system wall clock, which advances and which the
\* system may also set back between two reads.
ClockSteps == (0 - 1)..MaxTick

(***************************************************************************)
(* Strategies.                                                             *)
(***************************************************************************)
Strategies == {"forloop", "comp", "map", "numpy"}

\* for item in l1: l2.append(lg10(item))
\* The loop stops at the first element lg10 raises on; what was appended
\* before stays in l2 and item stays bound to the failing element.
RECURSIVE ForLoop(_, _, _)
ForLoop(items, acc, last) ==
    IF items = <<>> THEN [ok |-> TRUE, l2 |-> acc, item |-> last]
    ELSE IF lg10Raises(Head(items))
         THEN [ok |-> FALSE, l2 |-> acc, item |-> Head(items)]
         ELSE ForLoop(Tail(items), Append(acc, lg10(Head(items))),
                      Head(items))

\* range(1, 1000001) as floats; the literal is scaled with MaxN.
CompRange == [i \in 1..MaxN |-> i * Unit]

\* [lg10(i) for i in range(1, 1000001)]
Comprehension == [i \in 1..Len(CompRange) |-> lg10(CompRange[i])]

\* list(map(op1, l1)) raises as soon as op1 does.
MapRaises(l) == \E i \in 1..Len(l) : op1Raises(l[i])
Map(l) == [i \in 1..Len(l) |-> op1(l[i])]

(***************************************************************************)
(* Reporter.                                                               *)
(***************************************************************************)
Lefts == <<1, 2, 3, 4>>
\* The tick labels with the comprehension and map labels exchanged.
TickLabelsSwapped ==
    <<"For-loop", "Map function", "List comprehension", "NumPy">>

TickLabels == <<"For-loop", "List comprehension", "Map function", "NumPy">>

\* The label the Reporter uses for each strategy.
LabelOf(s) == CASE s = "forloop" -> "For-loop"
                [] s = "comp" -> "List comprehension"
                [] s = "map" -> "Map function"
                [] s = "numpy" -> "NumPy"

\* plt.bar of the matplotlib the notebook was run with (the one that takes
\* left= and answers "<Container object of 4 artists>"): ValueError
\* "incompatible sizes" on a height whose length is not len(left).
BarRaises(height) == Len(height) # Len(Lefts)
Bar(height) ==
    [i \in 1..Len(Lefts) |->
        [left |-> Lefts[i],
         height |-> height[i],
         tick_label |-> TickLabels[i]]]

(***************************************************************************)
(* Cells, in notebook order.                                               *)
(***************************************************************************)
\* The notebook with the plot cell placed before the NumPy cells.
CellOrderPlotEarly ==
    <<"imports", "init", "gen", "preview_l1", "array", "shape",
      "blank", "forloop", "preview_for", "comp", "preview_comp",
      "defop1", "map", "preview_map", "plot", "numpy", "preview_np",
      "done">>

CellOrder == <<"imports", "init", "gen", "preview_l1", "array", "shape",
               "blank", "forloop", "preview_for", "comp", "preview_comp",
               "defop1", "map", "preview_map", "numpy", "preview_np",
               "plot", "done">>

NextCell(c) == LET i == CHOOSE j \in 1..Len(CellOrder) : CellOrder[j] = c
               IN  CellOrder[i + 1]

NoErr == "none"

\* A run that goes on to the next cell whether or not the cell raised.
AdvanceAllowErrors == /\ pc' = NextCell(pc)
                      /\ UNCHANGED execs

\* "Run All": the next cell runs when the cell succeeded; the run stops at
\* the first cell that raises.
Advance == /\ pc' = IF err' = NoErr THEN NextCell(pc) ELSE "halted"
           /\ UNCHANGED execs

\* A cell executed by hand in an interactive session.
ByHand == /\ pc = "manual"
          /\ execs < MaxExec
          /\ execs' = execs + 1
          /\ pc' = pc

EmptyArray == np_array(<<>>)

\* One step of a cell: what it does (ev) and the cell or strategy doing it.
Ev(kind, c) == [ev |-> kind, cell |-> c]

\* The statements of a cell that binds names or prints, in program order.
Stmts(c) == <<Ev("exec", c)>>
Prints(c) == <<Ev("print", c)>>

\* The statements of a strategy cell, in program order, as they would be
\* with the elapsed-time print placed before the end timestamp.
TimedStmtsPrintInside(s) ==
    <<Ev("t1", s), Ev("compute", s), Ev("print", s), Ev("t2", s),
      Ev("append", s)>>

\* The statements of a strategy cell, in program order: t1=time.time(),
\* the transform, t2 = time.time(), print(...), speed.append(t2-t1).
TimedStmts(s) ==
    <<Ev("t1", s), Ev("compute", s), Ev("t2", s), Ev("print", s),
      Ev("append", s)>>

\* The statements a strategy cell has run when its transform raises.
RaisedStmts(s) == <<Ev("t1", s), Ev("raise", s)>>

\* The kernel before any cell has run.
Fresh ==
    /\ err = NoErr
    /\ ns = {}
    /\ N = 0
    /\ speed = <<>>
    /\ l1 = <<>>
    /\ a1 = EmptyArray
    /\ l2 = <<>>
    /\ item = 0
    /\ t1 = 0
    /\ t2 = 0
    /\ a2 = EmptyArray
    /\ l3 = <<>>
    /\ clock = 0
    /\ stdout = <<>>
    /\ chart = <<>>
    /\ runs = <<>>
    /\ execs = 0
    /\ trace = <<>>

Init == pc = "imports" /\ Fresh

\* import numpy as np, from math import log10 as lg10, import time, ...
ImportsCell ==
    /\ err' = NoErr
    /\ ns' = ns \cup {"np", "lg10", "time", "plt", "random"}
    /\ trace' = trace \o Stmts("imports")
    /\ UNCHANGED <<N, speed, l1, a1, l2, item, t1, t2, a2, l3, clock,
                   stdout, chart, runs>>

\* N = n ; speed = []
InitCellWith(n) ==
    /\ err' = NoErr
    /\ N' = n
    /\ speed' = <<>>
    /\ ns' = ns \cup {"N", "speed"}
    /\ trace' = trace \o Stmts("init")
    /\ UNCHANGED <<l1, a1, l2, item, t1, t2, a2, l3, clock, stdout,
                   chart, runs>>

\* N = 1000000 ; speed = []  (the literal is an input of the run)
InitCell == \E n \in NValues : InitCellWith(n)

\* l1 = list(100*(np.random.random(N))+1) ; print("Length of l1:",len(l1))
GenCell ==
    IF RandomRaises(N)
    THEN /\ err' = "ValueError"
         /\ trace' = Append(trace, Ev("raise", "gen"))
         /\ UNCHANGED <<ns, N, speed, l1, a1, l2, item, t1, t2, a2, l3,
                        clock, stdout, chart, runs>>
    ELSE \E r \in RandomArrays(N) :
            /\ err' = NoErr
            /\ l1' = Generate(r)
            /\ ns' = ns \cup {"l1"}
            /\ stdout' = <<"Length of l1:", Len(l1')>>
            /\ trace' = trace \o Stmts("gen") \o Prints("gen")
            /\ UNCHANGED <<N, speed, a1, l2, item, t1, t2, a2, l3, clock,
                           chart, runs>>

\* print("First few elements of the array:", l1[:4])
PreviewL1Cell ==
    /\ err' = NoErr
    /\ stdout' = <<"First few elements of the array:", Slice(l1, 4)>>
    /\ trace' = trace \o Prints("preview_l1")
    /\ UNCHANGED <<ns, N, speed, l1, a1, l2, item, t1, t2, a2, l3, clock,
                   chart, runs>>

\* a1 = np.array(l1)
ArrayCell ==
    /\ err' = NoErr
    /\ a1' = np_array(l1)
    /\ ns' = ns \cup {"a1"}
    /\ trace' = trace \o Stmts("array")
    /\ UNCHANGED <<N, speed, l1, l2, item, t1, t2, a2, l3, clock, stdout,
                   chart, runs>>

\* print("Shape of a1 object:",a1.shape) ; print("Type of a1 object:",...)
ShapeCell ==
    /\ err' = NoErr
    /\ stdout' = <<"Type of a1 object:", "numpy.ndarray">>
    /\ trace' = trace \o Prints("shape")
    /\ UNCHANGED <<ns, N, speed, l1, a1, l2, item, t1, t2, a2, l3, clock,
                   chart, runs>>

\* The blank-list cell rebinding l1 instead of l2.
BlankCellRebindsL1 ==
    /\ err' = NoErr
    /\ l1' = <<>>
    /\ ns' = ns \cup {"l1"}
    /\ trace' = trace \o Stmts("blank")
    /\ UNCHANGED <<N, speed, l2, a1, item, t1, t2, a2, l3, clock, stdout,
                   chart, runs>>

\* The blank-list cell rebinding speed instead of l2.
BlankCellRebindsSpeed ==
    /\ err' = NoErr
    /\ speed' = <<>>
    /\ ns' = ns \cup {"speed"}
    /\ trace' = trace \o Stmts("blank")
    /\ UNCHANGED <<N, l1, l2, a1, item, t1, t2, a2, l3, clock, stdout,
                   chart, runs>>

\* l2=[]
BlankCell ==
    /\ err' = NoErr
    /\ l2' = <<>>
    /\ ns' = ns \cup {"l2"}
    /\ trace' = trace \o Stmts("blank")
    /\ UNCHANGED <<N, speed, l1, a1, item, t1, t2, a2, l3, clock, stdout,
                   chart, runs>>

\* time.time(): the values a read can return when the last read returned c.
TimeReads(c) == {c + d : d \in ClockSteps}

\* t1=time.time() ; for item in l1: l2.append(lg10(item)) ; t2 = time.time()
\* print(... .format(t2-t1)) ; speed.append(t2-t1)
ForLoopCell ==
    \E start \in TimeReads(clock) : \E stop \in TimeReads(start) :
        LET loop == ForLoop(l1, l2, item)
        IN  /\ t1' = start
            /\ l2' = loop.l2
            /\ item' = loop.item
            /\ IF loop.ok
               THEN /\ err' = NoErr
                    /\ t2' = stop
                    /\ clock' = stop
                    /\ stdout' = <<"With for loop and appending it took",
                                   stop - start>>
                    /\ speed' = Append(speed, stop - start)
                    /\ ns' = ns \cup {"t1", "t2"}
                                \cup (IF l1 = <<>> THEN {} ELSE {"item"})
                    /\ runs' = Append(runs, [strategy |-> "forloop",
                                             input |-> l1,
                                             result |-> loop.l2,
                                             elapsed |-> stop - start])
                    /\ trace' = trace \o TimedStmts("forloop")
               ELSE /\ err' = "ValueError"
                    /\ clock' = start
                    /\ ns' = ns \cup {"t1", "item"}
                    /\ trace' = trace \o RaisedStmts("forloop")
                    /\ UNCHANGED <<t2, stdout, speed, runs>>
            /\ UNCHANGED <<N, l1, a1, a2, l3, chart>>

\* print("First few elements of the resulting array:", l2[:4])
PreviewL2Cell ==
    /\ err' = NoErr
    /\ stdout' = <<"First few elements of the resulting array:",
                   Slice(l2, 4)>>
    /\ trace' = trace \o Prints("preview_l2")
    /\ UNCHANGED <<ns, N, speed, l1, a1, l2, item, t1, t2, a2, l3, clock,
                   chart, runs>>

\* t1=time.time() ; l2 = [lg10(i) for i in range(1,1000001)]
\* t2 = time.time() ; print(...) ; speed.append(t2-t1)
CompCell ==
    \E start \in TimeReads(clock) : \E stop \in TimeReads(start) :
        /\ err' = NoErr
        /\ t1' = start
        /\ l2' = Comprehension
        /\ t2' = stop
        /\ clock' = stop
        /\ stdout' = <<"With list comprehension, it took", stop - start>>
        /\ speed' = Append(speed, stop - start)
        /\ ns' = ns \cup {"t1", "l2", "t2"}
        /\ runs' = Append(runs, [strategy |-> "comp",
                                 input |-> CompRange,
                                 result |-> Comprehension,
                                 elapsed |-> stop - start])
        /\ trace' = trace \o TimedStmts("comp")
        /\ UNCHANGED <<N, l1, a1, item, a2, l3, chart>>

\* def op1(x): return (lg10(x))
DefOp1Cell ==
    /\ err' = NoErr
    /\ ns' = ns \cup {"op1"}
    /\ trace' = trace \o Stmts("defop1")
    /\ UNCHANGED <<N, speed, l1, a1, l2, item, t1, t2, a2, l3, clock,
                   stdout, chart, runs>>

\* t1=time.time() ; l2=list(map(op1,l1)) ; t2 = time.time()
\* print(...) ; speed.append(t2-t1)
MapCell ==
    \E start \in TimeReads(clock) : \E stop \in TimeReads(start) :
        /\ t1' = start
        /\ IF MapRaises(l1)
           THEN /\ err' = "ValueError"
                /\ clock' = start
                /\ ns' = ns \cup {"t1"}
                /\ trace' = trace \o RaisedStmts("map")
                /\ UNCHANGED <<l2, t2, stdout, speed, runs>>
           ELSE /\ err' = NoErr
                /\ l2' = Map(l1)
                /\ t2' = stop
                /\ clock' = stop
                /\ stdout' = <<"With map functional method it took",
                               stop - start>>
                /\ speed' = Append(speed, stop - start)
                /\ ns' = ns \cup {"t1", "l2", "t2"}
                /\ runs' = Append(runs, [strategy |-> "map",
                                         input |-> l1,
                                         result |-> Map(l1),
                                         elapsed |-> stop - start])
                /\ trace' = trace \o TimedStmts("map")
        /\ UNCHANGED <<N, l1, a1, item, a2, l3, chart>>

\* t1=time.time() ; a2=np.log10(a1) ; t2 = time.time()
\* print(...) ; speed.append(t2-t1)
NumpyCell ==
    \E start \in TimeReads(clock) : \E stop \in TimeReads(start) :
        /\ err' = NoErr
        /\ t1' = start
        /\ a2' = np_log10_array(a1)
        /\ t2' = stop
        /\ clock' = stop
        /\ stdout' = <<"With direct NumPy log10 method it took",
                       stop - start>>
        /\ speed' = Append(speed, stop - start)
        /\ ns' = ns \cup {"t1", "a2", "t2"}
        /\ runs' = Append(runs, [strategy |-> "numpy",
                                 input |-> a1.data,
                                 result |-> a2'.data,
                                 elapsed |-> stop - start])
        /\ trace' = trace \o TimedStmts("numpy")
        /\ UNCHANGED <<N, l1, a1, l2, item, l3, chart>>

\* l3 = list(a2) ; print("First few elements of the resulting array:", l3[:4])
PreviewNpCell ==
    IF "a2" \notin ns
    THEN /\ err' = "NameError"
         /\ trace' = Append(trace, Ev("raise", "preview_np"))
         /\ UNCHANGED <<ns, N, speed, l1, a1, l2, item, t1, t2, a2, l3,
                        clock, stdout, chart, runs>>
    ELSE /\ err' = NoErr
         /\ l3' = list_of_array(a2)
         /\ ns' = ns \cup {"l3"}
         /\ stdout' = <<"First few elements of the resulting array:",
                        Slice(l3', 4)>>
         /\ trace' = trace \o Stmts("preview_np") \o Prints("preview_np")
         /\ UNCHANGED <<N, speed, l1, a1, l2, item, t1, t2, a2, clock,
                        chart, runs>>

\* plt.figure(...) ; plt.ylabel(...) ; plt.xlabel(...) ; plt.grid(True)
\* plt.bar(left=[1,2,3,4],height=speed,align='center',tick_label=[...])
\* plt.figure, ylabel, xlabel and grid run before plt.bar: when plt.bar
\* raises, the current figure is the new one, with no bars.
PlotCell ==
    /\ IF BarRaises(speed)
       THEN /\ err' = "ValueError"
            /\ chart' = <<>>
            /\ trace' = Append(trace \o Stmts("plot"), Ev("raise", "plot"))
       ELSE /\ err' = NoErr
            /\ chart' = Bar(speed)
            /\ trace' = trace \o Stmts("plot")
    /\ UNCHANGED <<ns, N, speed, l1, a1, l2, item, t1, t2, a2, l3, clock,
                   stdout, runs>>

(***************************************************************************)
(* Spec: one top-to-bottom execution of the notebook ("Run All").          *)
(***************************************************************************)
RunImports == pc = "imports" /\ ImportsCell /\ Advance
RunInit == pc = "init" /\ InitCell /\ Advance
RunGen == pc = "gen" /\ GenCell /\ Advance
RunPreviewL1 == pc = "preview_l1" /\ PreviewL1Cell /\ Advance
RunArray == pc = "array" /\ ArrayCell /\ Advance
RunShape == pc = "shape" /\ ShapeCell /\ Advance
RunBlank == pc = "blank" /\ BlankCell /\ Advance
RunForLoop == pc = "forloop" /\ ForLoopCell /\ Advance
RunPreviewFor == pc = "preview_for" /\ PreviewL2Cell /\ Advance
RunComp == pc = "comp" /\ CompCell /\ Advance
RunPreviewComp == pc = "preview_comp" /\ PreviewL2Cell /\ Advance
RunDefOp1 == pc = "defop1" /\ DefOp1Cell /\ Advance
RunMap == pc = "map" /\ MapCell /\ Advance
RunPreviewMap == pc = "preview_map" /\ PreviewL2Cell /\ Advance
RunNumpy == pc = "numpy" /\ NumpyCell /\ Advance
RunPreviewNp == pc = "preview_np" /\ PreviewNpCell /\ Advance
RunPlot == pc = "plot" /\ PlotCell /\ Advance

Next ==
    \/ RunImports
    \/ RunInit
    \/ RunGen
    \/ RunPreviewL1
    \/ RunArray
    \/ RunShape
    \/ RunBlank
    \/ RunForLoop
    \/ RunPreviewFor
    \/ RunComp
    \/ RunPreviewComp
    \/ RunDefOp1
    \/ RunMap
    \/ RunPreviewMap
    \/ RunNumpy
    \/ RunPreviewNp
    \/ RunPlot

Spec == Init /\ [][Next]_vars

(***************************************************************************)
(* SpecSample: an interactive session on a given Sample Set.  The kernel   *)
(* has run the imports, "N = ...; speed = []", the "l1 = ..." cell with    *)
(* the given Sample Set as the value bound to l1 and its print of the      *)
(* length, "a1 = np.array(l1)", "l2=[]" and "def op1"; every cell of the   *)
(* notebook can then be executed by hand, in any order and any number of   *)
(* times.                                                                  *)
(***************************************************************************)
\* Elements of a given Sample Set: -5.0, 0.0, 4.0.
SampleValues == {0 - 5 * Unit, 0, 4 * Unit}

SampleSets == UNION {[1..n -> SampleValues] : n \in 0..MaxN}

\* The Sample Sets of a session by hand.
HandSets == UNION {[1..n -> SampleValues] : n \in 0..MaxSample}

InitSample ==
    /\ pc = "manual"
    /\ err = NoErr
    /\ l1 \in HandSets
    /\ N = Len(l1)
    /\ ns = {"np", "lg10", "time", "plt", "random", "N", "speed", "l1",
             "a1", "l2", "op1"}
    /\ speed = <<>>
    /\ a1 = np_array(l1)
    /\ l2 = <<>>
    /\ item = 0
    /\ t1 = 0
    /\ t2 = 0
    /\ a2 = EmptyArray
    /\ l3 = <<>>
    /\ clock = 0
    /\ stdout = <<"Length of l1:", Len(l1)>>
    /\ chart = <<>>
    /\ runs = <<>>
    /\ execs = 0
    /\ trace = Stmts("imports") \o Stmts("init") \o Stmts("gen")
                 \o Prints("gen") \o Stmts("array") \o Stmts("blank")
                 \o Stmts("defop1")

HandImports == ByHand /\ ImportsCell
\* The cell executed again holds the same literal N.
HandInit == ByHand /\ InitCellWith(N)
HandGen == ByHand /\ GenCell
HandPreviewL1 == ByHand /\ PreviewL1Cell
HandArray == ByHand /\ ArrayCell
HandShape == ByHand /\ ShapeCell
HandBlank == ByHand /\ BlankCell
HandForLoop == ByHand /\ ForLoopCell
HandComp == ByHand /\ CompCell
HandDefOp1 == ByHand /\ DefOp1Cell
HandMap == ByHand /\ MapCell
HandNumpy == ByHand /\ NumpyCell
HandPreviewL2 == ByHand /\ PreviewL2Cell
HandPreviewNp == ByHand /\ PreviewNpCell
HandPlot == ByHand /\ PlotCell

NextSample ==
    \/ HandImports
    \/ HandInit
    \/ HandGen
    \/ HandPreviewL1
    \/ HandArray
    \/ HandShape
    \/ HandBlank
    \/ HandForLoop
    \/ HandComp
    \/ HandDefOp1
    \/ HandMap
    \/ HandNumpy
    \/ HandPreviewL2
    \/ HandPreviewNp
    \/ HandPlot

SpecSample == InitSample /\ [][NextSample]_vars

(***************************************************************************)
(* SpecGiven: one top-to-bottom execution on a given Sample Set.  The      *)
(* kernel has run the imports and "N = ...; speed = []" cells and l1 is    *)
(* bound to the given Sample Set; "Run All" continues from the array       *)
(* conversion and stops at the first cell that raises.                     *)
(***************************************************************************)
InitGiven ==
    /\ pc = "array"
    /\ err = NoErr
    /\ l1 \in SampleSets
    /\ N = Len(l1)
    /\ ns = {"np", "lg10", "time", "plt", "random", "N", "speed", "l1"}
    /\ speed = <<>>
    /\ a1 = EmptyArray
    /\ l2 = <<>>
    /\ item = 0
    /\ t1 = 0
    /\ t2 = 0
    /\ a2 = EmptyArray
    /\ l3 = <<>>
    /\ clock = 0
    /\ stdout = <<"First few elements of the array:", Slice(l1, 4)>>
    /\ chart = <<>>
    /\ runs = <<>>
    /\ execs = 0
    /\ trace = Stmts("imports") \o Stmts("init") \o Stmts("gen")
                 \o Prints("gen") \o Prints("preview_l1")

NextGiven ==
    \/ RunArray
    \/ RunShape
    \/ RunBlank
    \/ RunForLoop
    \/ RunPreviewFor
    \/ RunComp
    \/ RunPreviewComp
    \/ RunDefOp1
    \/ RunMap
    \/ RunPreviewMap
    \/ RunNumpy
    \/ RunPreviewNp
    \/ RunPlot

SpecGiven == InitGiven /\ [][NextGiven]_vars

(***************************************************************************)
(* SpecAll: the notebook used either way: run top to bottom on a fresh     *)
(* kernel with generated data, or cell by cell by hand on a given Sample   *)
(* Set.                                                                    *)
(***************************************************************************)
InitAll == Init \/ InitSample

NextAll == Next \/ NextSample

SpecAll == InitAll /\ [][NextAll]_vars

(***************************************************************************)
(* Properties.                                                             *)
(***************************************************************************)
\* The elementwise base-10 logarithm of a Sample Set.
Log10Of(l) == [i \in 1..Len(l) |-> Log10Pos(l[i])]

HasNonPositive(l) == \E i \in 1..Len(l) : l[i] <= 0

Ran(s) == \E k \in 1..Len(runs) : runs[k].strategy = s

\* C1: every strategy that has run on the Sample Set l1 produced, at every
\* index i < N, log10 of l1[i]; the four Result Sets are elementwise equal.
C1_SameResults ==
    \A k \in 1..Len(runs) : runs[k].result = Log10Of(l1)

\* C2: the input every strategy iterated is the Sample Set l1 (or the array
\* a1 built from it).
C2_SameInput ==
    \A k \in 1..Len(runs) : runs[k].input = l1

\* C3: once the Reporter has drawn the chart in a top-to-bottom run, speed
\* holds exactly four values, in the order for-loop, list comprehension,
\* map, NumPy, and the i-th bar carries the label of the i-th strategy run
\* and has its elapsed time as height.
C3_BarsMatchStrategies ==
    chart # <<>> =>
        /\ Len(speed) = 4
        /\ Len(runs) = 4
        /\ <<runs[1].strategy, runs[2].strategy, runs[3].strategy,
             runs[4].strategy>> = <<"forloop", "comp", "map", "numpy">>
        /\ \A i \in 1..4 :
              /\ speed[i] = runs[i].elapsed
              /\ chart[i].height = runs[i].elapsed
              /\ chart[i].tick_label = LabelOf(runs[i].strategy)

C3_Witness ==
    /\ pc = "done"
    /\ chart # <<>>
    /\ speed[2] # speed[3]

\* C4: every duration appended to speed is non-negative.
C4_NonNegative ==
    \A i \in 1..Len(speed) : speed[i] >= 0

\* C5: two executions of the same strategy on the same Sample Set yield
\* identical Result Sets.
C5_Idempotent ==
    \A i, j \in 1..Len(runs) :
        runs[i].strategy = runs[j].strategy =>
            runs[i].result = runs[j].result

\* C6: on a Sample Set with a non-positive value every strategy fails: none
\* completes and records a result.
C6_EveryStrategyFails ==
    HasNonPositive(l1) => runs = <<>>

\* C7: on an empty Sample Set every strategy that ran yielded an empty
\* Result Set.
C7_EmptyResult ==
    ("l1" \in ns /\ l1 = <<>>) =>
        \A k \in 1..Len(runs) : runs[k].result = <<>>

\* C8: the sequence the Data Generator returns has exactly N elements, each
\* value v with 1 <= v < 101.
C8_GeneratorRange ==
    "l1" \in ns =>
        /\ Len(l1) = N
        /\ \A i \in 1..Len(l1) : Unit <= l1[i] /\ l1[i] < 101 * Unit

C8_Witness ==
    /\ "l1" \in ns
    /\ Len(l1) = MaxN
    /\ \E i \in 1..Len(l1) : l1[i] = Unit
    /\ \E i \in 1..Len(l1) : l1[i] > 100 * Unit

\* C9: once the Data Generator cell has bound l1, no cell changes its
\* length or any of its elements.
C9_SampleSetImmutable ==
    [][("l1" \in ns) => (l1' = l1)]_vars

C9_Witness ==
    /\ pc = "done"
    /\ Len(l1) = MaxN
    /\ chart # <<>>

\* C10 as stated: with N <= 0 no Sample Set is produced and no strategy is
\* timed.
C10_NonPositiveRejected ==
    ("N" \in ns /\ N <= 0) => ("l1" \notin ns /\ speed = <<>>)

\* C10 amended: a negative N is rejected by the Data Generator (ValueError),
\* the top-to-bottom run stops there, no Sample Set is produced and no
\* strategy is timed; N = 0 is accepted, produces an empty Sample Set and
\* the four strategies are timed.
C10_NegativeRejected ==
    /\ ("N" \in ns /\ N < 0) =>
          /\ "l1" \notin ns
          /\ speed = <<>>
          /\ runs = <<>>
          /\ pc \in {"gen", "halted"}
          /\ pc = "halted" => err = "ValueError"
    /\ ("N" \in ns /\ N = 0) =>
          /\ pc # "halted"
          /\ pc # "gen" => ("l1" \in ns /\ l1 = <<>>)
          /\ pc = "done" => Len(speed) = 4

C10_Witness ==
    /\ "N" \in ns
    /\ N < 0
    /\ pc = "halted"
    /\ err = "ValueError"

\* Positions of a step in the trace.
Pos(kind, c) == {p \in 1..Len(trace) : trace[p] = Ev(kind, c)}

\* Positions of the steps of one kind, whatever the cell.
PosOf(kind) == {p \in 1..Len(trace) : trace[p].ev = kind}

\* The strategies in the order of their cells.
StrategyOrder == <<"forloop", "comp", "map", "numpy">>

\* C11: the Data Generator completes before any strategy takes its start
\* timestamp; strategy k's end timestamp t2 is taken before strategy k+1's
\* start timestamp t1; no start timestamp is taken inside another timed
\* interval; the Reporter runs only after all four strategies completed.
C11_Sequential ==
    /\ \A q \in PosOf("t1") :
          \E p \in Pos("print", "gen") : p < q
    /\ \A k \in 1..3 :
          \A q \in Pos("t1", StrategyOrder[k + 1]) :
              \E p \in Pos("t2", StrategyOrder[k]) : p < q
    /\ \A p, q \in PosOf("t1") :
          p < q => \E r \in Pos("t2", trace[p].cell) : p < r /\ r < q
    /\ \A p \in 1..Len(trace) :
          trace[p].cell = "plot" =>
              \A s \in Strategies :
                  \E q \in Pos("append", s) : q < p

C11_Witness ==
    /\ pc = "done"
    /\ Pos("exec", "plot") # {}
    /\ \A s \in Strategies : Cardinality(Pos("t2", s)) = 1

\* C12: a strategy cell whose computation raises is not retried and its
\* error is not suppressed: the error is reported, no duration is appended
\* to speed, the run stops there, and the Reporter never draws a chart from
\* fewer than four durations.
C12_FailurePropagates ==
    /\ [](chart # <<>> => Len(speed) = 4)
    /\ [](pc = "halted" =>
            /\ err = "ValueError"
            /\ chart = <<>>
            /\ Len(speed) < 4
            /\ trace[Len(trace)].ev = "raise"
            /\ trace[Len(trace)].cell \in Strategies
            /\ Cardinality(Pos("t1", trace[Len(trace)].cell)) = 1
            /\ Pos("append", trace[Len(trace)].cell) = {}
            /\ ~Ran(trace[Len(trace)].cell))
    /\ [][(pc \in Strategies /\ HasNonPositive(l1) /\ pc # "comp"
              /\ pc # "numpy") =>
            (err' = "ValueError" /\ speed' = speed /\ runs' = runs
             /\ pc' = "halted")]_vars
    /\ [][err' # NoErr => (speed' = speed /\ pc' = "halted")]_vars
    /\ [][pc # "halted"]_vars

C12_Witness ==
    /\ pc = "halted"
    /\ err = "ValueError"
    /\ trace[Len(trace)] = Ev("raise", "forloop")
    /\ l2 # <<>>
    /\ speed = <<>>

\* The number of strategy executions that completed since the last
\* "speed = []".
RECURSIVE CompletedSinceInit(_)
CompletedSinceInit(tr) ==
    IF tr = <<>> THEN 0
    ELSE LET e == tr[Len(tr)]
         IN  IF e = Ev("exec", "init") THEN 0
             ELSE (IF e.ev = "t2" THEN 1 ELSE 0)
                  + CompletedSinceInit(SubSeq(tr, 1, Len(tr) - 1))

\* C13: the length of speed is the number of strategy-cell executions
\* completed since speed was last set to the empty list; a completed
\* strategy execution appends exactly one entry, t2-t1, and no other step
\* adds, removes or changes an entry.
C13_SpeedCountsCompleted ==
    /\ [](Len(speed) = CompletedSinceInit(trace))
    /\ [][(\E s \in Strategies : trace' = trace \o TimedStmts(s)) =>
            speed' = Append(speed, t2' - t1')]_vars
    /\ [][speed' # speed =>
            \/ speed' = <<>> /\ trace' = trace \o Stmts("init")
            \/ \E s \in Strategies : trace' = trace \o TimedStmts(s)]_vars

C13_Witness ==
    /\ Len(runs) = 1
    /\ speed = <<>>
    /\ trace[Len(trace)] = Ev("exec", "init")

\* C14: a strategy's start timestamp is followed at once by its transform
\* and, when that completes, by its end timestamp; the conversion of l1
\* into a1 precedes every start timestamp; the elapsed-time print, the
\* append to speed and the result previews come after the end timestamp.
C14_IntervalEnclosesTransform ==
    /\ \A p \in PosOf("t1") :
          /\ p < Len(trace)
          /\ trace[p + 1] \in {Ev("compute", trace[p].cell),
                               Ev("raise", trace[p].cell)}
    /\ \A p \in PosOf("t2") :
          /\ p > 2
          /\ trace[p - 1] = Ev("compute", trace[p].cell)
          /\ trace[p - 2] = Ev("t1", trace[p].cell)
    /\ \A q \in PosOf("t1") :
          /\ \E p \in Pos("exec", "array") : p < q
          /\ \A p \in Pos("exec", "array") : p < q
    /\ \A s \in Strategies :
          /\ \A p \in Pos("print", s) : trace[p - 1] = Ev("t2", s)
          /\ \A p \in Pos("append", s) : trace[p - 2] = Ev("t2", s)
    /\ \A p \in Pos("print", "preview_l2") : trace[p - 1].ev = "append"
    /\ \A p \in Pos("print", "preview_np") :
          \E q \in Pos("t2", "numpy") : q < p

C14_Witness ==
    /\ pc = "done"
    /\ Pos("print", "preview_np") # {}
    /\ Cardinality(Pos("print", "preview_l2")) = 3
    /\ t2 # t1

====
